---- MODULE Spec2Model ----
(***************************************************************************)
(* form2list: walks a directory of application-form workbooks, matches     *)
(* each one against the configured input formats, and writes one row per   *)
(* workbook into the sheets of a template workbook that is saved at the    *)
(* end (src/form2list/__init__.py).                                        *)
(*                                                                         *)
(* Text is modelled as a sequence of one-character strings, so that        *)
(* str(), f-strings, template rendering and literal_eval are conversions   *)
(* that can go wrong.  A Python dict is a function whose DOMAIN is the set  *)
(* of keys present; a missing key is a key outside the DOMAIN.             *)
(***************************************************************************)
EXTENDS Integers, Sequences, FiniteSets, TLC

VARIABLES
    pc,           \* position of main / process_file
    input_files,  \* main: result of find_input_files
    yaml_file,    \* the configuration file on disk (NoFile when absent)
    config,       \* main: the loaded configuration (Null before loading)
    template_wb,  \* main: the in-memory output workbook (Null before loading)
    row_number,   \* main: the row counter
    idx,          \* main: number of loop iterations started
    file_path,    \* process_file: its file_path argument
    doc,          \* process_file: cells of the active sheet of the input workbook
    context,      \* process_file: the context dict
    fi,           \* process_file: index of the next input format to try
    si,           \* process_file: index of the next sheet config to write
    ret,          \* how main ended
    stderr,       \* the last error reported on stderr
    output,       \* the output file on disk (NotWritten until saved)
    saves,        \* number of calls of template_wb.save
    tried,        \* history: per file, the formats whose items were read
    outcome,      \* history: per file, how process_file ended
    written,      \* history: every cell write, in order
    n,            \* column_number_to_name: the argument
    name          \* column_number_to_name: the result

vars == <<pc, input_files, yaml_file, config, template_wb, row_number, idx,
          file_path, doc, context, fi, si, ret, stderr, output, saves,
          tried, outcome, written, n, name>>

(***************************************************************************)
(* Bounds of the model.                                                    *)
(***************************************************************************)
MaxFiles == 2
MaxFormats == 2
MaxSheets == 2
MaxN == 730

(***************************************************************************)
(* Text.                                                                   *)
(***************************************************************************)
Letters == <<"A","B","C","D","E","F","G","H","I","J","K","L","M",
             "N","O","P","Q","R","S","T","U","V","W","X","Y","Z">>

Digits == <<"0","1","2","3","4","5","6","7","8","9">>

TrueText == <<"T","r","u","e">>
FalseText == <<"F","a","l","s","e">>
Alice == <<"A","l","i","c","e">>
Bob == <<"B","o","b">>

RECURSIVE DecStr(_)
\* str(k) for an integer k >= 0
DecStr(k) ==
    IF k < 10 THEN <<Digits[k + 1]>>
    ELSE DecStr(k \div 10) \o <<Digits[(k % 10) + 1]>>

RECURSIVE NameLoop(_, _)
NameLoop(k, acc) ==
    IF k > 0
    THEN NameLoop((k - 1) \div 26, <<Letters[((k - 1) % 26) + 1]>> \o acc)
    ELSE acc

RECURSIVE NameLoopZeroBased(_, _)
\* the loop with divmod(n, 26) in place of divmod(n - 1, 26)
NameLoopZeroBased(k, acc) ==
    IF k > 0
    THEN NameLoopZeroBased(k \div 26, <<Letters[(k % 26) + 1]>> \o acc)
    ELSE acc

ColumnNumberToNameZeroBased(k) == NameLoopZeroBased(k, <<>>)

ColumnNumberToName(k) == NameLoop(k, <<>>)

\* os.path.dirname / os.path.basename: split at the last separator
LastSlash(p) ==
    LET S == {i \in 1..Len(p) : p[i] = "/"}
    IN  IF S = {} THEN 0 ELSE CHOOSE i \in S : \A j \in S : j <= i

Dirname(p) == SubSeq(p, 1, LastSlash(p) - 1)

Basename(p) == SubSeq(p, LastSlash(p) + 1, Len(p))

(***************************************************************************)
(* Values of the context dict: text or integer.                            *)
(***************************************************************************)
StrVal(s) == [t |-> "str", s |-> s, n |-> 0]
IntVal(k) == [t |-> "int", s |-> <<>>, n |-> k]

\* d[k] = v of a Python dict
Put(d, k, v) == (k :> v) @@ d

EmptyDict == <<>>

(***************************************************************************)
(* Templates.  A template source is a sequence of parts: literal text,     *)
(* {{ name }} or {{ name == 'text' }}.                                     *)
(***************************************************************************)
Lit(s) == [k |-> "lit", name |-> "", text |-> s]
Var(v) == [k |-> "var", name |-> v, text |-> <<>>]
Eq(v, s) == [k |-> "eq", name |-> v, text |-> s]

\* jinja2.Template(source): the compiled, renderable unit
Template(source) == [parts |-> source]

\* str() of one expression of a template; an undefined name renders empty
\* and compares unequal to everything
RenderPart(p, ctx) ==
    CASE p.k = "lit" -> p.text
      [] p.k = "var" ->
            IF p.name \notin DOMAIN ctx THEN <<>>
            ELSE IF ctx[p.name].t = "int" THEN DecStr(ctx[p.name].n)
            ELSE ctx[p.name].s
      [] p.k = "eq" ->
            IF p.name \in DOMAIN ctx /\ ctx[p.name] = StrVal(p.text)
            THEN TrueText ELSE FalseText

RECURSIVE RenderParts(_, _)
RenderParts(ps, ctx) ==
    IF ps = <<>> THEN <<>>
    ELSE RenderPart(Head(ps), ctx) \o RenderParts(Tail(ps), ctx)

\* template.render(context)
Render(tpl, ctx) == RenderParts(tpl.parts, ctx)

\* ast.literal_eval of a rendered condition, then its truth value
LiteralEval(text) ==
    CASE text = TrueText -> TRUE
      [] text = FalseText -> FALSE

(***************************************************************************)
(* Inputs: input workbooks, configurations, template workbooks.            *)
(***************************************************************************)
\* the active sheet of an input workbook: cell address -> value
Docs ==
    { [B2 |-> Alice, C3 |-> Bob],
      [B2 |-> Bob, C3 |-> Alice] }

\* the k-th path found by find_input_files
PathOf(k) == <<"d", "/", "f">> \o DecStr(k) \o <<".", "x", "l", "s", "x">>

FormatSpecs ==
    { [items |-> [name |-> "B2", dept |-> "C3"],
       condition |-> <<Eq("name", Alice)>>],
      [items |-> [name |-> "C3", kind |-> "B2"]],
      [condition |-> <<Lit(TrueText)>>] }

ColName == [value |-> <<Var("name")>>]
ColDeptKind == [value |-> <<Var("dept"), Lit(<<"/">>), Var("kind")>>]
ColCell == [value |-> <<Var("cell")>>]

SheetSpecs ==
    { [name |-> "S1", columns |-> <<ColName, ColDeptKind>>],
      [name |-> "S2", rowOffset |-> 10, columns |-> <<ColCell>>],
      [name |-> "S1"],
      [name |-> "S1", columns |-> <<EmptyDict>>] }

ColumnOffsets == {1}

TemplatePaths == {"template.xlsx"}

\* the sheets a template workbook on disk may hold
TemplateSheets == { {"S1"}, {"S1", "S2"} }

SeqsUpTo(S, m) == UNION { [1..l -> S] : l \in 0..m }

\* a dict that may or may not hold key k
Maybe(k, S) == {EmptyDict} \cup { k :> v : v \in S }

Configs ==
    { f @@ s @@ c @@ t :
        f \in Maybe("inputFormats", SeqsUpTo(FormatSpecs, MaxFormats)),
        s \in Maybe("sheets", SeqsUpTo(SheetSpecs, MaxSheets)),
        c \in Maybe("columnOffset", ColumnOffsets),
        t \in Maybe("template", TemplatePaths) }

NoWorkbook == [sheets |-> {}, cells |-> EmptyDict]

NotWritten == [saved |-> FALSE, cells |-> EmptyDict]

(***************************************************************************)
(* setup_templates                                                         *)
(***************************************************************************)
\* dict.get(k, default)
Get(d, k, default) == IF k \in DOMAIN d THEN d[k] ELSE default

\* the key whose lookup raises KeyError in setup_templates, "" when none does
SetupMissingKey(cfg) ==
    IF "inputFormats" \notin DOMAIN cfg THEN "inputFormats"
    ELSE IF "sheets" \notin DOMAIN cfg THEN "sheets"
    ELSE IF \E j \in 1..Len(cfg["sheets"]) :
              LET cols == Get(cfg["sheets"][j], "columns", <<>>)
              IN  \E i \in 1..Len(cols) : "value" \notin DOMAIN cols[i]
         THEN "value"
    ELSE ""

\* a format without a condition never matches
CompileFormatDefaultFalse(spec) ==
    Put(spec, "condition_template",
        Template(Get(spec, "condition", <<Lit(FalseText)>>)))

CompileFormat(spec) ==
    Put(spec, "condition_template",
        Template(Get(spec, "condition", <<Lit(TrueText)>>)))

CompileColumn(col) == Put(col, "value_template", Template(col["value"]))

CompileSheet(sc) ==
    IF "columns" \in DOMAIN sc
    THEN Put(sc, "columns",
             [i \in 1..Len(sc["columns"]) |-> CompileColumn(sc["columns"][i])])
    ELSE sc

\* the configuration after setup_templates returned normally
SetupTemplates(cfg) ==
    Put(Put(cfg, "inputFormats",
            [j \in 1..Len(cfg["inputFormats"]) |->
                CompileFormat(cfg["inputFormats"][j])]),
        "sheets",
        [j \in 1..Len(cfg["sheets"]) |-> CompileSheet(cfg["sheets"][j])])

(***************************************************************************)
(* process_file, the parts that are pure.                                  *)
(***************************************************************************)
\* the context is rebuilt from the items of the format being tried alone
ReadItemsReset(ctx, items, ws) == [k \in DOMAIN items |-> StrVal(ws[items[k]])]

\* for key, cell in spec['items'].items(): context[key] = ws[cell].value
ReadItems(ctx, items, ws) ==
    [k \in DOMAIN ctx \cup DOMAIN items |->
        IF k \in DOMAIN items THEN StrVal(ws[items[k]]) ELSE ctx[k]]

\* context['dirname'], context['basename']
WithPath(ctx, path) ==
    Put(Put(ctx, "dirname", StrVal(Dirname(path))),
        "basename", StrVal(Basename(path)))

\* context['row_number'], context['row']
SheetRow(row, sc) == row + Get(sc, "rowOffset", 0)

\* the offset is added to the row number the context already holds
WithRowCarry(ctx, row, sc) ==
    LET base == IF "row_number" \in DOMAIN ctx THEN ctx["row_number"].n ELSE row
        r == base + Get(sc, "rowOffset", 0)
    IN  Put(Put(ctx, "row_number", IntVal(r)), "row", StrVal(DecStr(r)))

WithRow(ctx, row, sc) ==
    Put(Put(ctx, "row_number", IntVal(SheetRow(row, sc))),
        "row", StrVal(DecStr(SheetRow(row, sc))))

\* context['column_number'], context['column'], context['cell']
ColumnNumber(i, cfg) == i + Get(cfg, "columnOffset", 0)

CellAddress(column, row) == column \o row

WithColumn(ctx, i, cfg) ==
    LET cn == ColumnNumber(i, cfg)
        c1 == Put(ctx, "column_number", IntVal(cn))
        c2 == Put(c1, "column", StrVal(ColumnNumberToName(cn)))
    IN  Put(c2, "cell", StrVal(CellAddress(c2["column"].s, c2["row"].s)))

\* the rendered condition taken as a raw string: any non-empty text is true
TruthyRawText(spec, ctx) == Render(spec["condition_template"], ctx) # <<>>

\* literal_eval(spec['condition_template'].render(context))
Truthy(spec, ctx) == LiteralEval(Render(spec["condition_template"], ctx))

\* every sheet name taken as present
SheetMissingNever(sc, wb) == FALSE

\* output_wb[sheet_config['name']] raises KeyError
SheetMissing(sc, wb) == sc["name"] \notin wb.sheets

RECURSIVE WriteColumns(_, _, _, _)
\* the loop over sheet_config['columns'], from column i on: the context, the
\* cells of the output workbook and the writes made, st a record of the three
WriteColumns(cols, i, sheet, st) ==
    IF i > Len(cols) THEN st
    ELSE LET ctx == WithColumn(st.ctx, i, config)
             value == Render(cols[i]["value_template"], ctx)
             addr == ctx["cell"].s
         IN  WriteColumns(cols, i + 1, sheet,
                 [ctx |-> ctx,
                  cells |-> Put(st.cells, <<sheet, addr>>, value),
                  log |-> Append(st.log,
                            [file |-> idx, sheet |-> si, col |-> i, ws |-> sheet,
                             cell |-> addr, value |-> value, ctx |-> ctx])])

(***************************************************************************)
(* main and process_file as a state machine.                               *)
(***************************************************************************)
Init ==
    /\ pc = "find_input_files"
    /\ input_files \in { [k \in 1..l |-> PathOf(k)] : l \in 0..MaxFiles }
    /\ yaml_file \in {[exists |-> FALSE, content |-> EmptyDict]}
                     \cup { [exists |-> TRUE, content |-> c] : c \in Configs }
    /\ config = EmptyDict
    /\ template_wb = NoWorkbook
    /\ row_number = 0
    /\ idx = 0
    /\ file_path = <<>>
    /\ doc = EmptyDict
    /\ context = EmptyDict
    /\ fi = 0
    /\ si = 0
    /\ ret = "running"
    /\ stderr = "none"
    /\ output = NotWritten
    /\ saves = 0
    /\ tried = <<>>
    /\ outcome = <<>>
    /\ written = <<>>
    /\ n = 0
    /\ name = <<>>

\* main ends: return code, or an exception that nothing catches
Exit(how, msg) ==
    /\ pc' = "exit"
    /\ ret' = how
    /\ stderr' = msg

\* main, lines 94-98
CheckInputFiles ==
    /\ pc = "find_input_files"
    /\ IF input_files = <<>>
       THEN Exit("return 1", "NoInputFiles")
       ELSE pc' = "load_config" /\ UNCHANGED <<ret, stderr>>
    /\ UNCHANGED <<input_files, yaml_file, config, template_wb, row_number, idx,
                   file_path, doc, context, fi, si, output, saves,
                   tried, outcome, written, n, name>>

\* main, lines 100-105
LoadConfig ==
    /\ pc = "load_config"
    /\ IF yaml_file.exists
       THEN /\ config' = yaml_file.content
            /\ pc' = "setup_templates"
            /\ UNCHANGED <<ret, stderr>>
       ELSE /\ Exit("return 1", "ConfigNotFound")
            /\ UNCHANGED config
    /\ UNCHANGED <<input_files, yaml_file, template_wb, row_number, idx,
                   file_path, doc, context, fi, si, output, saves,
                   tried, outcome, written, n, name>>

\* main, lines 107-111
Setup ==
    /\ pc = "setup_templates"
    /\ IF SetupMissingKey(config) = ""
       THEN /\ config' = SetupTemplates(config)
            /\ pc' = "load_template"
            /\ UNCHANGED <<ret, stderr>>
       ELSE /\ Exit("return 1", "MissingKey")
            /\ UNCHANGED config
    /\ UNCHANGED <<input_files, yaml_file, template_wb, row_number, idx,
                   file_path, doc, context, fi, si, output, saves,
                   tried, outcome, written, n, name>>

\* main, lines 113-122: the template file may not exist
LoadTemplate ==
    /\ pc = "load_template"
    /\ IF "template" \notin DOMAIN config
       THEN /\ Exit("return 1", "NoTemplateKey")
            /\ UNCHANGED <<template_wb, row_number>>
       ELSE \/ /\ Exit("return 1", "TemplateNotFound")
               /\ UNCHANGED <<template_wb, row_number>>
            \/ /\ \E sheets \in TemplateSheets :
                      template_wb' = [sheets |-> sheets, cells |-> EmptyDict]
               /\ row_number' = 1
               /\ pc' = "loop"
               /\ UNCHANGED <<ret, stderr>>
    /\ UNCHANGED <<input_files, yaml_file, config, idx,
                   file_path, doc, context, fi, si, output, saves,
                   tried, outcome, written, n, name>>

\* main, lines 123-124, and process_file, lines 47-52: the next file is
\* opened; what it holds is read from disk at this point
BeginFile ==
    /\ pc = "loop"
    /\ idx < Len(input_files)
    /\ idx' = idx + 1
    /\ file_path' = input_files[idx + 1]
    /\ \E d \in Docs : doc' = d
    /\ context' = EmptyDict
    /\ fi' = 1
    /\ si' = 0
    /\ tried' = Append(tried, <<>>)
    /\ outcome' = Append(outcome, "matching")
    /\ pc' = "match"
    /\ UNCHANGED <<input_files, yaml_file, config, template_wb, row_number,
                   ret, stderr, output, saves, written, n, name>>

\* process_file, lines 53-60 and 64-65: one input format is tried
MatchFormat ==
    /\ pc = "match"
    /\ fi <= Len(config["inputFormats"])
    /\ LET spec == config["inputFormats"][fi]
       IN  IF "items" \notin DOMAIN spec
           THEN /\ Exit("raise KeyError", stderr)
                /\ outcome' = [outcome EXCEPT ![idx] = "raised"]
                /\ UNCHANGED <<context, fi, si, tried>>
           ELSE LET ctx == ReadItems(context, spec["items"], doc)
                    truthy == Truthy(spec, ctx)
                IN  /\ tried' = [tried EXCEPT
                                   ![idx] = Append(@, [format |-> fi, truthy |-> truthy])]
                    /\ IF truthy
                       THEN /\ context' = WithPath(ctx, file_path)
                            /\ si' = 1
                            /\ pc' = "write"
                            /\ outcome' = [outcome EXCEPT ![idx] = "writing"]
                            /\ UNCHANGED fi
                       ELSE /\ context' = ctx
                            /\ fi' = fi + 1
                            /\ UNCHANGED <<pc, si, outcome>>
                    /\ UNCHANGED <<ret, stderr>>
    /\ UNCHANGED <<input_files, yaml_file, config, template_wb, row_number, idx,
                   file_path, doc, output, saves, written, n, name>>

\* no format matched, and main goes on with the next file
UnmatchedContinue ==
    /\ pc = "match"
    /\ fi > Len(config["inputFormats"])
    /\ outcome' = [outcome EXCEPT ![idx] = "unmatched"]
    /\ row_number' = row_number + 1
    /\ pc' = "loop"
    /\ stderr' = "FailToLoad"
    /\ UNCHANGED <<input_files, yaml_file, config, template_wb, idx,
                   file_path, doc, context, fi, si, ret, output, saves,
                   tried, written, n, name>>

\* no format matched, and process_file goes on to write the sheets
UnmatchedFallsThrough ==
    /\ pc = "match"
    /\ fi > Len(config["inputFormats"])
    /\ outcome' = [outcome EXCEPT ![idx] = "unmatched"]
    /\ context' = WithPath(context, file_path)
    /\ si' = 1
    /\ pc' = "write"
    /\ UNCHANGED <<input_files, yaml_file, config, template_wb, row_number, idx,
                   file_path, doc, fi, ret, stderr, output, saves,
                   tried, written, n, name>>

\* process_file, lines 61-63, and main, lines 125-127: no format matched
Unmatched ==
    /\ pc = "match"
    /\ fi > Len(config["inputFormats"])
    /\ outcome' = [outcome EXCEPT ![idx] = "unmatched"]
    /\ row_number' = row_number + 1
    /\ Exit("return 1", "FailToLoad")
    /\ UNCHANGED <<input_files, yaml_file, config, template_wb, idx,
                   file_path, doc, context, fi, si, output, saves,
                   tried, written, n, name>>

\* process_file, lines 67-79: one sheet config is written
WriteSheet ==
    /\ pc = "write"
    /\ si <= Len(config["sheets"])
    /\ LET sc == config["sheets"][si]
           ctx == WithRow(context, row_number, sc)
       IN  IF SheetMissing(sc, template_wb) \/ "columns" \notin DOMAIN sc
           THEN /\ context' = ctx
                /\ Exit("raise KeyError", stderr)
                /\ outcome' = [outcome EXCEPT ![idx] = "raised"]
                /\ UNCHANGED <<template_wb, written, si>>
           ELSE LET st == WriteColumns(sc["columns"], 1, sc["name"],
                              [ctx |-> ctx, cells |-> template_wb.cells,
                               log |-> written])
                IN  /\ context' = st.ctx
                    /\ template_wb' = [template_wb EXCEPT !.cells = st.cells]
                    /\ written' = st.log
                    /\ si' = si + 1
                    /\ UNCHANGED <<pc, ret, stderr, outcome>>
    /\ UNCHANGED <<input_files, yaml_file, config, row_number, idx,
                   file_path, doc, fi, output, saves, tried, n, name>>

\* process_file, line 80, and main, lines 125-127: the file is done
EndFile ==
    /\ pc = "write"
    /\ si > Len(config["sheets"])
    /\ outcome' = [outcome EXCEPT ![idx] = "ok"]
    /\ row_number' = row_number + 1
    /\ pc' = "loop"
    /\ UNCHANGED <<input_files, yaml_file, config, template_wb, idx,
                   file_path, doc, context, fi, si, ret, stderr, output, saves,
                   tried, written, n, name>>

\* the workbook is saved whenever main is between two files
SaveBetweenFiles ==
    /\ pc = "loop"
    /\ output' = [saved |-> TRUE, cells |-> template_wb.cells]
    /\ saves' = saves + 1
    /\ IF idx >= Len(input_files)
       THEN Exit("return 0", stderr)
       ELSE UNCHANGED <<pc, ret, stderr>>
    /\ saves < 2
    /\ UNCHANGED <<input_files, yaml_file, config, template_wb, row_number, idx,
                   file_path, doc, context, fi, si,
                   tried, outcome, written, n, name>>

\* main, lines 128-129
Save ==
    /\ pc = "loop"
    /\ idx >= Len(input_files)
    /\ output' = [saved |-> TRUE, cells |-> template_wb.cells]
    /\ saves' = saves + 1
    /\ Exit("return 0", stderr)
    /\ UNCHANGED <<input_files, yaml_file, config, template_wb, row_number, idx,
                   file_path, doc, context, fi, si,
                   tried, outcome, written, n, name>>

Next ==
    \/ CheckInputFiles
    \/ LoadConfig
    \/ Setup
    \/ LoadTemplate
    \/ BeginFile
    \/ MatchFormat
    \/ Unmatched
    \/ WriteSheet
    \/ EndFile
    \/ Save

Spec == Init /\ [][Next]_vars

(***************************************************************************)
(* column_number_to_name on its own: the argument is drawn from 1..MaxN    *)
(* and the function is applied to it.                                      *)
(***************************************************************************)
InitName ==
    /\ pc = "name"
    /\ n \in 1..MaxN
    /\ name = <<>>
    /\ input_files = <<>>
    /\ yaml_file = [exists |-> FALSE, content |-> EmptyDict]
    /\ config = EmptyDict
    /\ template_wb = NoWorkbook
    /\ row_number = 0
    /\ idx = 0
    /\ file_path = <<>>
    /\ doc = EmptyDict
    /\ context = EmptyDict
    /\ fi = 0
    /\ si = 0
    /\ ret = "running"
    /\ stderr = "none"
    /\ output = NotWritten
    /\ saves = 0
    /\ tried = <<>>
    /\ outcome = <<>>
    /\ written = <<>>

Convert ==
    /\ pc = "name"
    /\ name' = ColumnNumberToName(n)
    /\ pc' = "named"
    /\ UNCHANGED <<input_files, yaml_file, config, template_wb, row_number, idx,
                   file_path, doc, context, fi, si, ret, stderr, output, saves,
                   tried, outcome, written, n>>

NextName == Convert

SpecName == InitName /\ [][NextName]_vars

(***************************************************************************)
(* Readers of text, used to state the properties.                          *)
(***************************************************************************)
IsLetter(ch) == \E i \in 1..26 : Letters[i] = ch

LetterValue(ch) == CHOOSE i \in 1..26 : Letters[i] = ch

IsDigit(ch) == \E i \in 1..10 : Digits[i] = ch

DigitValue(ch) == (CHOOSE i \in 1..10 : Digits[i] = ch) - 1

RECURSIVE NameToColumnNumber(_)
\* bijective base 26, A = 1 .. Z = 26
NameToColumnNumber(s) ==
    IF s = <<>> THEN 0
    ELSE 26 * NameToColumnNumber(SubSeq(s, 1, Len(s) - 1)) + LetterValue(s[Len(s)])

RECURSIVE ParseDec(_)
ParseDec(s) ==
    IF s = <<>> THEN 0
    ELSE 10 * ParseDec(SubSeq(s, 1, Len(s) - 1)) + DigitValue(s[Len(s)])

\* a cell address splits into its leading letters and the digits after them
LetterCount(a) == Cardinality({i \in 1..Len(a) : \A j \in 1..i : IsLetter(a[j])})

ColumnOfAddress(a) == SubSeq(a, 1, LetterCount(a))

RowOfAddress(a) == SubSeq(a, LetterCount(a) + 1, Len(a))

WellFormedAddress(a) ==
    /\ LetterCount(a) >= 1
    /\ LetterCount(a) < Len(a)
    /\ \A i \in (LetterCount(a) + 1)..Len(a) : IsDigit(a[i])
    /\ a[LetterCount(a) + 1] # "0"

Loaded == "inputFormats" \in DOMAIN config /\ "sheets" \in DOMAIN config

Formats == config["inputFormats"]

SheetConfigs == config["sheets"]

Unmatched_files == {k \in 1..Len(outcome) : outcome[k] = "unmatched"}

(***************************************************************************)
(* C4: column_number_to_name is bijective base 26: reading the name back   *)
(* as bijective base 26 gives the number again, every character is a       *)
(* letter, and 1, 26, 27, 52, 53, 702 and 703 give A, Z, AA, AZ, BA, ZZ    *)
(* and AAA.                                                                *)
(***************************************************************************)
C4_RoundTrip ==
    pc = "named" =>
        /\ \A i \in 1..Len(name) : IsLetter(name[i])
        /\ Len(name) >= 1
        /\ NameToColumnNumber(name) = n
        /\ (n = 1 => name = <<"A">>)
        /\ (n = 26 => name = <<"Z">>)
        /\ (n = 27 => name = <<"A", "A">>)
        /\ (n = 52 => name = <<"A", "Z">>)
        /\ (n = 53 => name = <<"B", "A">>)
        /\ (n = 702 => name = <<"Z", "Z">>)
        /\ (n = 703 => name = <<"A", "A", "A">>)

C4_Witness == pc = "named" /\ n = 703 /\ name = <<"A", "A", "A">>

(***************************************************************************)
(* C1: once a file has failed to match, at whatever position, the output   *)
(* workbook has never been saved, nothing is on disk, and main has         *)
(* returned 1.                                                             *)
(***************************************************************************)
C1_AbortNoSave ==
    Unmatched_files # {} =>
        /\ saves = 0
        /\ output = NotWritten
        /\ pc = "exit"
        /\ ret = "return 1"

\* the second file fails to match after the first one was written in memory
C1_Witness ==
    /\ outcome = <<"ok", "unmatched">>
    /\ template_wb.cells # EmptyDict
    /\ ret = "return 1"

\* every file of input_files was matched and every cell of every sheet
\* config was written for it
AllFilesWritten ==
    /\ Len(outcome) = Len(input_files)
    /\ \A k \in 1..Len(outcome) :
          /\ outcome[k] = "ok"
          /\ \A j \in 1..Len(SheetConfigs) :
                \A i \in 1..Len(SheetConfigs[j]["columns"]) :
                    \E w \in 1..Len(written) :
                        /\ written[w].file = k
                        /\ written[w].sheet = j
                        /\ written[w].col = i

(***************************************************************************)
(* C2: main returns 0 only when every file was matched and written; the    *)
(* workbook is saved once, in that run only, and what is saved is the      *)
(* workbook as it is after the last file (no save between files).          *)
(***************************************************************************)
C2_SuccessSavesOnce ==
    /\ saves \in {0, 1}
    /\ (saves = 1) = (ret = "return 0")
    /\ output.saved = (saves = 1)
    /\ ret = "return 0" =>
          /\ pc = "exit"
          /\ input_files # <<>>
          /\ AllFilesWritten
          /\ output.cells = template_wb.cells

C2_Witness ==
    /\ ret = "return 0"
    /\ Len(input_files) >= 2
    /\ saves = 1
    /\ \E w \in 1..Len(written) : written[w].file = Len(input_files)

\* the cell writes that account for the cells of the in-memory workbook
WritesOf(key) == {w \in 1..Len(written) : <<written[w].ws, written[w].cell>> = key}

(***************************************************************************)
(* C8: a file that matches no format leaves the in-memory workbook as it   *)
(* was (every cell it holds was written for an earlier file, and no write  *)
(* belongs to the unmatched file), and no file after it is processed.      *)
(***************************************************************************)
C8_UnmatchedFrame ==
    \A k \in Unmatched_files :
        /\ k = Len(outcome)
        /\ k = idx
        /\ pc = "exit"
        /\ \A w \in 1..Len(written) : written[w].file < k
        /\ \A key \in DOMAIN template_wb.cells :
              /\ WritesOf(key) # {}
              /\ \E w \in WritesOf(key) :
                    /\ \A v \in WritesOf(key) : v <= w
                    /\ template_wb.cells[key] = written[w].value

\* the first of two files fails to match after both formats were tried
C8_Witness ==
    /\ outcome = <<"unmatched">>
    /\ Len(tried[1]) = 2
    /\ Len(input_files) = 2
    /\ pc = "exit"

\* the sheet configs whose sheet the output workbook does not hold
MissingSheets ==
    {j \in 1..Len(SheetConfigs) : SheetConfigs[j]["name"] \notin template_wb.sheets}

FirstMissingSheet == CHOOSE j \in MissingSheets : \A m \in MissingSheets : j <= m

(***************************************************************************)
(* C9: when a sheet config names a sheet the output workbook does not      *)
(* hold, a matched document stops there with a KeyError that nothing       *)
(* catches: no cell of that sheet config or of a later one is written, no  *)
(* later file is processed, and the workbook is never saved; cells written *)
(* for the earlier sheet configs stay in the in-memory workbook.           *)
(***************************************************************************)
C9_SheetNotFound ==
    (Loaded /\ template_wb.sheets # {} /\ MissingSheets # {}) =>
        /\ \A w \in 1..Len(written) :
              /\ written[w].sheet < FirstMissingSheet
              /\ written[w].file = 1
              /\ <<written[w].ws, written[w].cell>> \in DOMAIN template_wb.cells
        /\ si <= FirstMissingSheet
        /\ idx <= 1
        /\ saves = 0
        /\ output = NotWritten
        /\ ret # "return 0"
        /\ (pc = "exit" /\ si = FirstMissingSheet) =>
              /\ ret = "raise KeyError"
              /\ outcome = <<"raised">>

\* the second sheet config names a missing sheet; the first one was written
C9_Witness ==
    /\ Loaded
    /\ template_wb.sheets # {}
    /\ MissingSheets # {}
    /\ FirstMissingSheet = 2
    /\ si = 2
    /\ ret = "raise KeyError"
    /\ Len(input_files) >= 2
    /\ written # <<>>

\* the fields the first m formats read from the current document, a later
\* format winning on a shared field name
ItemKeys(m) == UNION {DOMAIN Formats[j]["items"] : j \in 1..m}

LastWith(key, m) ==
    CHOOSE j \in 1..m :
        /\ key \in DOMAIN Formats[j]["items"]
        /\ \A l \in 1..m : key \in DOMAIN Formats[l]["items"] => l <= j

AccFields(m) ==
    [key \in ItemKeys(m) |-> StrVal(doc[Formats[LastWith(key, m)]["items"][key]])]

\* the condition of format m on the fields read so far
CondTruthy(m) ==
    LiteralEval(RenderParts(Get(Formats[m], "condition", <<Lit(TrueText)>>),
                            AccFields(m)))

\* the current file was matched (process_file went on to the sheets)
Matched == idx >= 1 /\ si >= 1

(***************************************************************************)
(* C3: the formats are tried in list order, each condition on the fields   *)
(* read so far; the first one whose rendered condition is true is          *)
(* selected, and no format after it has its items read or its condition    *)
(* evaluated.  A file is unmatched only when every condition was false.    *)
(***************************************************************************)
C3_FirstTruthyWins ==
    (Loaded /\ idx >= 1) =>
        LET t == tried[idx]
        IN  /\ \A m \in 1..Len(t) :
                  /\ t[m].format = m
                  /\ "items" \in DOMAIN Formats[m]
                  /\ t[m].truthy = CondTruthy(m)
                  /\ m < Len(t) => ~t[m].truthy
            /\ Matched =>
                  /\ Len(t) >= 1
                  /\ t[Len(t)].truthy
                  /\ fi = Len(t)
                  /\ DOMAIN context \cap {"name", "dept", "kind"} = ItemKeys(Len(t))
            /\ outcome[idx] = "unmatched" =>
                  /\ Len(t) = Len(Formats)
                  /\ \A m \in 1..Len(t) : ~CondTruthy(m)

\* two formats that would both be true: the first one is selected and the
\* second one is never read
C3_Witness ==
    /\ Loaded
    /\ Matched
    /\ Len(Formats) = 2
    /\ Len(tried[idx]) = 1
    /\ "condition" \in DOMAIN Formats[1]
    /\ "items" \in DOMAIN Formats[2]
    /\ CondTruthy(2)
    /\ "kind" \notin DOMAIN context

\* the sheet config j was written in full for file k
SheetDone(k, j) == outcome[k] = "ok" \/ (k = idx /\ si > j)

WritesFor(k, j, i) ==
    {w \in 1..Len(written) :
        written[w].file = k /\ written[w].sheet = j /\ written[w].col = i}

(***************************************************************************)
(* C5: the k-th file writes, for the sheet config j with row offset r and  *)
(* its i-th column, with the global column offset c, exactly the cell of   *)
(* the sheet named by j whose column letters read i + c and whose row      *)
(* digits read k + r; the row offset of one sheet config does not reach    *)
(* the next one.                                                           *)
(***************************************************************************)
C5_CellPlacement ==
    Loaded =>
        /\ \A w \in 1..Len(written) :
              LET e == written[w]
                  sc == SheetConfigs[e.sheet]
              IN  /\ e.ws = sc["name"]
                  /\ e.col \in 1..Len(sc["columns"])
                  /\ WellFormedAddress(e.cell)
                  /\ NameToColumnNumber(ColumnOfAddress(e.cell))
                        = e.col + Get(config, "columnOffset", 0)
                  /\ ParseDec(RowOfAddress(e.cell))
                        = e.file + Get(sc, "rowOffset", 0)
                  /\ <<e.ws, e.cell>> \in DOMAIN template_wb.cells
        /\ \A k \in 1..Len(outcome) : \A j \in 1..Len(SheetConfigs) :
              IF SheetDone(k, j)
              THEN \A i \in 1..Len(SheetConfigs[j]["columns"]) :
                      Cardinality(WritesFor(k, j, i)) = 1
              ELSE \A w \in 1..Len(written) :
                      ~(written[w].file = k /\ written[w].sheet = j)

\* the second file's first column is at A2, and a sheet config with
\* rowOffset 10 puts the first file at row 11, before a sheet config
\* without offset puts it at row 1
C5_Witness ==
    /\ Loaded
    /\ ret = "return 0"
    /\ "columnOffset" \notin DOMAIN config
    /\ Len(SheetConfigs) = 2
    /\ "rowOffset" \in DOMAIN SheetConfigs[1]
    /\ "rowOffset" \notin DOMAIN SheetConfigs[2]
    /\ \E w \in 1..Len(written) :
          /\ written[w].file = 1 /\ written[w].sheet = 1
          /\ written[w].cell = <<"A", "1", "1">>
    /\ \E w \in 1..Len(written) :
          /\ written[w].file = 1 /\ written[w].sheet = 2 /\ written[w].col = 1
          /\ written[w].cell = <<"A", "1">>
    /\ \E w \in 1..Len(written) :
          /\ written[w].file = 2 /\ written[w].sheet = 2 /\ written[w].col = 1
          /\ written[w].cell = <<"A", "2">>

SingleWithoutCondition ==
    /\ Len(Formats) = 1
    /\ "condition" \notin DOMAIN Formats[1]

(***************************************************************************)
(* C6 as stated: with an empty inputFormats list, or a single format       *)
(* without a condition, no file is ever reported as unmatched.             *)
(***************************************************************************)
C6_TrivialMatch ==
    (Loaded /\ (Formats = <<>> \/ SingleWithoutCondition)) => Unmatched_files = {}

(***************************************************************************)
(* C6 as amended: a single format without a condition matches every file   *)
(* (its condition is the literal True); an empty inputFormats list matches *)
(* none: the first file is reported as unmatched and nothing is written.   *)
(***************************************************************************)
C6_TrivialMatchAmended ==
    Loaded =>
        /\ SingleWithoutCondition =>
              /\ Unmatched_files = {}
              /\ \A k \in 1..Len(outcome) : \A m \in 1..Len(tried[k]) :
                    tried[k][m].truthy
        /\ Formats = <<>> =>
              /\ \A k \in 1..Len(outcome) : outcome[k] \in {"matching", "unmatched"}
              /\ written = <<>>
              /\ pc = "exit" /\ idx >= 1 => outcome = <<"unmatched">> /\ ret = "return 1"

C6_Witness ==
    /\ Loaded
    /\ SingleWithoutCondition
    /\ "items" \in DOMAIN Formats[1]
    /\ Len(outcome) >= 2
    /\ \A k \in 1..Len(outcome) : outcome[k] = "ok"

\* a format without items, a sheet config without columns, or a column
\* without value
LacksStructure ==
    \/ \E j \in 1..Len(Formats) : "items" \notin DOMAIN Formats[j]
    \/ \E j \in 1..Len(SheetConfigs) :
          \/ "columns" \notin DOMAIN SheetConfigs[j]
          \/ \E i \in 1..Len(SheetConfigs[j]["columns"]) :
                "value" \notin DOMAIN SheetConfigs[j]["columns"][i]

(***************************************************************************)
(* C7: when a format lacks items, a sheet config lacks columns or a column *)
(* lacks value, main gets no further than setup_templates: it reports the  *)
(* missing key and returns 1, and no input file is processed.              *)
(***************************************************************************)
C7_SetupRejects ==
    (Loaded /\ LacksStructure /\ pc # "setup_templates") =>
        /\ pc = "exit"
        /\ ret = "return 1"
        /\ stderr = "MissingKey"
        /\ idx = 0

C10_Fields ==
    (Loaded /\ idx >= 1) =>
        LET m == Len(tried[idx])
        IN  /\ DOMAIN context \cap {"name", "dept", "kind"} = ItemKeys(m)
            /\ \A key \in ItemKeys(m) : context[key] = AccFields(m)[key]
            /\ ~Matched => DOMAIN context = ItemKeys(m)
            /\ \A w \in 1..Len(written) :
                  written[w].file = idx =>
                      \A key \in ItemKeys(m) :
                          /\ key \in DOMAIN written[w].ctx
                          /\ written[w].ctx[key] = AccFields(m)[key]

C10_Grows == idx' = idx => DOMAIN context \subseteq DOMAIN context'

(***************************************************************************)
(* C10: the context of a document starts empty and its key set only grows; *)
(* when format j is selected it holds the items of the formats 1..j read   *)
(* from this document, a later format overriding an earlier one on a       *)
(* shared name; every column render sees these fields; nothing is left of  *)
(* the document before.                                                    *)
(***************************************************************************)
C10_ContextAccumulation == []C10_Fields /\ [][C10_Grows]_vars

\* second document, second format selected: name was read by both formats,
\* dept by the first one only, and a column was rendered
C10_Witness ==
    /\ Loaded
    /\ idx = 2
    /\ Matched
    /\ Len(tried[idx]) = 2
    /\ si >= 2
    /\ doc["B2"] = Bob
    /\ context["name"] = StrVal(Alice)
    /\ context["dept"] = StrVal(Alice)
    /\ context["kind"] = StrVal(Bob)
    /\ \E w \in 1..Len(written) : written[w].file = 2

====
